---- MODULE Spec2Model ----
(***************************************************************************)
(* The proxy handler of src/api/proxy.js.                                   *)
(*                                                                         *)
(* Spec is the streaming branch (lines 84-172) from the first read on,     *)
(* over the backend response bodies of Bodies.  HandlerSpec is one whole   *)
(* request, from the entry of the handler to its return, over the inbound  *)
(* requests of Requests and short response bodies.  PairSpec is two        *)
(* invocations of the handler streaming at the same time, interleaved at   *)
(* their reads.                                                            *)
(*                                                                         *)
(* The backend's response body is a sequence of bytes.  A byte sequence is *)
(* modelled as a sequence of units; a unit is either one byte of a         *)
(* multi-byte UTF-8 character ("0xC3", "0xA9") or a run of ASCII bytes     *)
(* that is kept together ("data: ", "[DONE]", a JSON fragment).  Chunk     *)
(* boundaries fall between units.  Decoded text is a sequence of units in  *)
(* the same way, and a line is the text between two newline units.         *)
(***************************************************************************)
EXTENDS Integers, Sequences, FiniteSets, TLC

\* Largest number of lines in a backend response body.
MaxLines == 3

(***************************************************************************)
(* Units of the backend byte stream and of the text written to the client. *)
(***************************************************************************)
NL        == "\n"
SP        == " "
Prefix    == "data: "
DoneToken == "[DONE]"
DocOpen   == "{\"candidates\":[{\"content\":{\"parts\":[{\"text\":\""
DocClose  == "\"}]}}]}"
DocNone   == "{}"
LeadByte  == "0xC3"
ContByte  == "0xA9"
EAcute    == "U+00E9"
Replacement == "U+FFFD"
ChunkHead == "{\"id\":\"chatcmpl-<now>\",\"object\":\"chat.completion.chunk\",\"created\":<now>,\"model\":\""
ChunkMid  == "\",\"choices\":[{\"index\":0,\"delta\":{\"content\":\""
ChunkTail == "\"},\"finish_reason\":null}]}"
EventEnd  == "\n\n"

\* White space as String.prototype.trim and JSON.parse see it.
WhiteSpace == {SP, "\t", "\r", NL}

\* Units that cannot stand inside a JSON string literal unescaped.
Structural == {DocOpen, DocClose, DocNone, ChunkHead, ChunkMid, ChunkTail, NL, EventEnd}

(***************************************************************************)
(* Backend lines the response bodies are built from.                       *)
(***************************************************************************)
LineHi        == <<Prefix, DocOpen, "Hi", DocClose>>
LineEAcute    == <<Prefix, DocOpen, LeadByte, ContByte, DocClose>>
LineEmptyText == <<Prefix, DocOpen, DocClose>>
LineNoCand    == <<Prefix, DocNone>>
LineBad       == <<Prefix, DocOpen, "Hi">>
LineDone      == <<Prefix, DoneToken>>
LinePing      == <<": ping">>
LineBlank     == <<SP>>
LineEmpty     == <<>>

Catalogue ==
  {LineHi, LineEAcute, LineEmptyText, LineNoCand, LineBad, LineDone,
   LinePing, LineBlank, LineEmpty}

RECURSIVE Join(_, _)
Join(ls, terminated) ==
  IF ls = <<>> THEN <<>>
  ELSE IF Len(ls) = 1 THEN (IF terminated THEN Append(ls[1], NL) ELSE ls[1])
  ELSE Append(ls[1], NL) \o Join(Tail(ls), terminated)

Bodies ==
  { Join(ls, t) : ls \in UNION { [1..n -> Catalogue] : n \in 0..MaxLines },
                  t \in BOOLEAN }

\* The model name sent upstream: the requested one if it names a gemini model.
ModelNames == {"gemini-pro", "gemini-1.5-flash"}

VARIABLES
  upstream,         \* the bytes of the backend response body
  pos,              \* number of bytes the reader has delivered
  model,            \* the model name of the request
  decoder,          \* bytes the TextDecoder holds back (incomplete character)
  buffer,           \* text received and not yet split into lines
  written,          \* res.write calls, in order
  calls,            \* processLine calls, in order: the line and what it wrote
  pc,               \* "reading": suspended at await reader.read(); "returned"
  outcome,          \* how the read loop was left
  ended,            \* res.end() has been called
  clientConnected,  \* the inbound client is still connected
  req,              \* the inbound request: method, authorization header, body
  response,         \* what fetch resolved with
  res,              \* the outbound response: status, JSON body, times completed
  fetches,          \* the calls of fetch, in order
  logs,             \* console.error calls of the two catch blocks of the handler
  writable,         \* FALSE when res.write throws
  handlers          \* the stream state of each of two concurrent invocations

streamVars == <<upstream, pos, decoder, buffer, written, calls, ended>>

requestVars == <<req, response, fetches>>

\* The state of one invocation taken by itself.
handlerVars == <<upstream, pos, model, decoder, buffer, written, calls, pc,
                 outcome, ended, clientConnected, req, response, res, fetches,
                 logs, writable>>

vars == <<handlerVars, handlers>>

(***************************************************************************)
(* TextDecoder.decode(value, {stream: true}) for UTF-8.                    *)
(***************************************************************************)
RECURSIVE DecodeFrom(_, _, _)
DecodeFrom(carry, bytes, out) ==
  IF bytes = <<>> THEN [text |-> out, carry |-> carry]
  ELSE LET b == Head(bytes) IN
    IF carry = <<>>
    THEN IF b = LeadByte THEN DecodeFrom(<<b>>, Tail(bytes), out)
         ELSE IF b = ContByte
              THEN DecodeFrom(<<>>, Tail(bytes), Append(out, Replacement))
              ELSE DecodeFrom(<<>>, Tail(bytes), Append(out, b))
    ELSE IF b = ContByte
         THEN DecodeFrom(<<>>, Tail(bytes), Append(out, EAcute))
         ELSE DecodeFrom(<<>>, bytes, Append(out, Replacement))

\* Mutant of Decode: every chunk is decoded on its own, without {stream: true}.
Decode_stateless(carry, value) ==
  LET d == DecodeFrom(<<>>, value, <<>>) IN
  [text  |-> IF d.carry # <<>> THEN Append(d.text, Replacement) ELSE d.text,
   carry |-> <<>>]

Decode(carry, value) == DecodeFrom(carry, value, <<>>)

(***************************************************************************)
(* String helpers.                                                         *)
(***************************************************************************)
RECURSIVE TrimStart(_)
TrimStart(s) ==
  IF s # <<>> /\ Head(s) \in WhiteSpace THEN TrimStart(Tail(s)) ELSE s

RECURSIVE TrimEnd(_)
TrimEnd(s) ==
  IF s # <<>> /\ s[Len(s)] \in WhiteSpace
  THEN TrimEnd(SubSeq(s, 1, Len(s) - 1)) ELSE s

Trim(s) == TrimEnd(TrimStart(s))

\* buffer.indexOf('\n'), counted from 1; 0 when there is none.
IndexOfNL(s) ==
  IF \E i \in 1..Len(s) : s[i] = NL
  THEN CHOOSE i \in 1..Len(s) : s[i] = NL /\ \A j \in 1..(i - 1) : s[j] # NL
  ELSE 0

StartsWithPrefix(line) == line # <<>> /\ Head(line) = Prefix

(***************************************************************************)
(* JSON.parse(data) and the extraction of the first part's text.           *)
(***************************************************************************)
JSONParse(data) ==
  LET d == Trim(data) IN
  IF d = <<DocNone>>
  THEN [throws |-> FALSE, hasText |-> FALSE, text |-> <<>>]
  ELSE IF /\ Len(d) >= 2
          /\ d[1] = DocOpen
          /\ d[Len(d)] = DocClose
          /\ \A k \in 2..(Len(d) - 1) : d[k] \notin Structural
       THEN [throws |-> FALSE, hasText |-> TRUE, text |-> SubSeq(d, 2, Len(d) - 1)]
       ELSE [throws |-> TRUE, hasText |-> FALSE, text |-> <<>>]

\* Mutant of Truthy: `content !== undefined` for `content`.
Truthy_defined(googleChunk) == googleChunk.hasText

\* if (content): undefined and the empty string are falsy.
Truthy(googleChunk) == googleChunk.hasText /\ googleChunk.text # <<>>

DoneEvent == <<Prefix, DoneToken, EventEnd>>

ChunkEvent(content, m) ==
  <<Prefix, ChunkHead, m, ChunkMid>> \o content \o <<ChunkTail, EventEnd>>

\* Mutant of ProcessLine: no try/catch around JSON.parse.
ProcessLine_nocatch(line, m) ==
  IF Trim(line) = <<>> \/ ~StartsWithPrefix(line)
  THEN [wrote |-> <<>>, threw |-> FALSE]
  ELSE LET data == Tail(line) IN
    IF data = <<DoneToken>>
    THEN IF writable THEN [wrote |-> <<DoneEvent>>, threw |-> FALSE]
         ELSE [wrote |-> <<>>, threw |-> TRUE]
    ELSE LET googleChunk == JSONParse(data) IN
      IF googleChunk.throws
      THEN [wrote |-> <<>>, threw |-> TRUE]
      ELSE IF Truthy(googleChunk)
           THEN IF writable
                THEN [wrote |-> <<ChunkEvent(googleChunk.text, m)>>, threw |-> FALSE]
                ELSE [wrote |-> <<>>, threw |-> TRUE]
           ELSE [wrote |-> <<>>, threw |-> FALSE]

(***************************************************************************)
(* processLine(line): the events it writes, and whether it throws.  A      *)
(* res.write that throws at line 161 is inside the try and is swallowed by *)
(* its catch; one that throws at line 133 leaves processLine.              *)
(***************************************************************************)
ProcessLine(line, m) ==
  IF Trim(line) = <<>> \/ ~StartsWithPrefix(line)
  THEN [wrote |-> <<>>, threw |-> FALSE]
  ELSE LET data == Tail(line) IN
    IF data = <<DoneToken>>
    THEN IF writable THEN [wrote |-> <<DoneEvent>>, threw |-> FALSE]
         ELSE [wrote |-> <<>>, threw |-> TRUE]
    ELSE LET googleChunk == JSONParse(data) IN
      IF googleChunk.throws
      THEN [wrote |-> <<>>, threw |-> FALSE]
      ELSE IF Truthy(googleChunk)
           THEN IF writable
                THEN [wrote |-> <<ChunkEvent(googleChunk.text, m)>>, threw |-> FALSE]
                ELSE [wrote |-> <<>>, threw |-> FALSE]
           ELSE [wrote |-> <<>>, threw |-> FALSE]

\* Mutant of ResWrite: the event is put in front of the earlier ones.
ResWrite_front(w, event) == <<event>> \o w

\* res.write(event)
ResWrite(w, event) == Append(w, event)

\* Mutant of ResEnd: the response is left open.
ResEnd_skip(e) == e

\* res.end()
ResEnd(e) == TRUE

\* One call of processLine from the read loop.
Invoke(line, m, w, c) ==
  LET r == ProcessLine(line, m) IN
  [written |-> IF r.wrote = <<>> THEN w ELSE ResWrite(w, r.wrote[1]),
   calls   |-> Append(c, [line |-> line, wrote |-> r.wrote]),
   threw   |-> r.threw]

\* Mutant of AppendChunk: the buffer is overwritten by the chunk.
AppendChunk_overwrite(buf, chunk) == chunk

\* buffer += chunk
AppendChunk(buf, chunk) == buf \o chunk

\* Mutant of SplitLines: `if` for `while`, one line per chunk at most.
SplitLines_once(buf, m, w, c) ==
  LET newlineIndex == IndexOfNL(buf) IN
  IF newlineIndex = 0
  THEN [buffer |-> buf, written |-> w, calls |-> c, threw |-> FALSE]
  ELSE LET line == SubSeq(buf, 1, newlineIndex - 1)
           rest == SubSeq(buf, newlineIndex + 1, Len(buf))
       IN IF Trim(line) # <<>>
          THEN LET r == Invoke(line, m, w, c) IN
               [buffer |-> rest, written |-> r.written, calls |-> r.calls,
                threw |-> r.threw]
          ELSE [buffer |-> rest, written |-> w, calls |-> c, threw |-> FALSE]

(***************************************************************************)
(* while ((newlineIndex = buffer.indexOf('\n')) !== -1) { ... }            *)
(***************************************************************************)
RECURSIVE SplitLines(_, _, _, _)
SplitLines(buf, m, w, c) ==
  LET newlineIndex == IndexOfNL(buf) IN
  IF newlineIndex = 0
  THEN [buffer |-> buf, written |-> w, calls |-> c, threw |-> FALSE]
  ELSE LET line == SubSeq(buf, 1, newlineIndex - 1)
           rest == SubSeq(buf, newlineIndex + 1, Len(buf))
       IN IF Trim(line) # <<>>
          THEN LET r == Invoke(line, m, w, c) IN
               IF r.threw
               THEN [buffer |-> rest, written |-> r.written, calls |-> r.calls,
                     threw |-> TRUE]
               ELSE SplitLines(rest, m, r.written, r.calls)
          ELSE SplitLines(rest, m, w, c)

\* Mutant of OnDone: the terminator is written before the remainder is processed.
OnDone_early(buf, m, w, c) ==
  LET t == ResWrite(w, DoneEvent) IN
  IF buf # <<>> THEN Invoke(buf, m, t, c)
  ELSE [written |-> t, calls |-> c, threw |-> FALSE]

\* Mutant of OnDone: the remainder is dropped at end-of-input.
OnDone_drop(buf, m, w, c) ==
  [written |-> ResWrite(w, DoneEvent), calls |-> c, threw |-> FALSE]

(***************************************************************************)
(* if (done) { if (buffer) processLine(buffer); res.write(DONE); break }   *)
(***************************************************************************)
OnDone(buf, m, w, c) ==
  LET r == IF buf # <<>> THEN Invoke(buf, m, w, c)
           ELSE [written |-> w, calls |-> c, threw |-> FALSE]
  IN IF r.threw THEN r
     ELSE IF writable
          THEN [written |-> ResWrite(r.written, DoneEvent), calls |-> r.calls,
                threw |-> FALSE]
          ELSE [written |-> r.written, calls |-> r.calls, threw |-> TRUE]

(***************************************************************************)
(* JavaScript values of the fields of the request body and of the backend  *)
(* documents.  Temperatures are counted in tenths.                         *)
(***************************************************************************)
Undefined == [t |-> "undefined", s |-> "", n |-> 0]
Null      == [t |-> "null", s |-> "", n |-> 0]
Str(x)    == [t |-> "string", s |-> x, n |-> 0]
Num(k)    == [t |-> "number", s |-> "", n |-> k]
True      == [t |-> "boolean", s |-> "true", n |-> 1]
False     == [t |-> "boolean", s |-> "false", n |-> 0]

\* The values that `||`, `!` and `if` take for false.
Falsy(v) ==
  \/ v.t \in {"undefined", "null"}
  \/ v.t = "string" /\ v.s = ""
  \/ v.t = "number" /\ v.n = 0
  \/ v = False

\* One entry of messages, and the values messages can have.
Message(c)        == [t |-> "object", content |-> c]
NullMessage       == [t |-> "null", content |-> Undefined]
NoMessages        == [t |-> "undefined", items |-> <<>>]
NullMessages      == [t |-> "null", items |-> <<>>]
StringMessages    == [t |-> "string", items |-> <<>>]
MessageList(list) == [t |-> "array", items |-> list]

(***************************************************************************)
(* The inbound requests.                                                   *)
(***************************************************************************)
Methods == {"OPTIONS", "GET", "POST"}

NoHeader == [present |-> FALSE, value |-> <<>>]

Header(v) == [present |-> TRUE, value |-> v]

AuthHeaders ==
  {NoHeader,
   Header(<<"Basic", SP, "key">>),
   Header(<<"Bearer">>),
   Header(<<"Bearer", SP>>),
   Header(<<"Bearer", SP, "key">>),
   Header(<<"Bearer", SP, SP, "key">>)}

StreamInputs == {Undefined, True, False}

ModelInputs == {Undefined, Null, Str("gpt-4"), Str("gemini-1.5-flash"), Num(5)}

TemperatureInputs == {Undefined, Null, Num(0), Num(10)}

MessageInputs ==
  {NoMessages, NullMessages, StringMessages,
   MessageList(<<>>),
   MessageList(<<Message(Str("a"))>>),
   MessageList(<<Message(Str("a")), Message(Str("b"))>>),
   MessageList(<<Message(Undefined), Message(Str(""))>>),
   MessageList(<<Message(Str("a")), NullMessage>>)}

UndefinedBody ==
  [defined |-> FALSE, stream |-> Undefined, model |-> Undefined,
   temperature |-> Undefined, messages |-> NoMessages]

RequestBodies ==
  {UndefinedBody} \cup
  [defined : {TRUE}, stream : StreamInputs, model : ModelInputs,
   temperature : TemperatureInputs, messages : MessageInputs]

Requests == [method : Methods, authorization : AuthHeaders, body : RequestBodies]

(***************************************************************************)
(* The JSON bodies the handler sends with res.json.                        *)
(***************************************************************************)
NoBody ==
  [kind |-> "none", message |-> "", type |-> "", code |-> Undefined,
   model |-> "", role |-> "", content |-> <<>>, finish_reason |-> "",
   usage |-> <<>>]

\* { error: message }
ErrorString(message) == [NoBody EXCEPT !.kind = "error_string", !.message = message]

\* { error: { message, type, code } }
ErrorEnvelope(message, type, code) ==
  [NoBody EXCEPT !.kind = "error_envelope", !.message = message,
                 !.type = type, !.code = code]

\* The chat.completion object of lines 231-249.
Completion(m, content) ==
  [NoBody EXCEPT !.kind = "completion", !.model = m, !.role = "assistant",
                 !.content = content, !.finish_reason = "stop",
                 !.usage = <<-1, -1, -1>>]

(***************************************************************************)
(* The backend's JSON documents: an error object or none, and how far the  *)
(* path candidates[0].content.parts[0].text goes.                          *)
(***************************************************************************)
GoogleDoc(hasError, message, code, path, text) ==
  [hasError |-> hasError, message |-> message, code |-> code, path |-> path,
   text |-> text]

GoogleDocs ==
  {GoogleDoc(TRUE, "bad key", Num(400), "none", <<>>),
   GoogleDoc(TRUE, "", Undefined, "text", <<"Hello">>),
   GoogleDoc(FALSE, "", Undefined, "none", <<>>),
   GoogleDoc(FALSE, "", Undefined, "candidate", <<>>),
   GoogleDoc(FALSE, "", Undefined, "content", <<>>),
   GoogleDoc(FALSE, "", Undefined, "part", <<>>),
   GoogleDoc(FALSE, "", Undefined, "text", <<>>),
   GoogleDoc(FALSE, "", Undefined, "text", <<"Hello">>)}

NoResponse == [ok |-> FALSE, status |-> 0, doc |-> GoogleDoc(FALSE, "", Undefined, "none", <<>>)]

OkResponses == [ok : {TRUE}, status : {200}, doc : GoogleDocs]

ErrorResponses == [ok : {FALSE}, status : {400, 503}, doc : GoogleDocs]

\* Mutant of ConvertGoogleToOpenAI: a document without content is answered
\* as an empty completion.
ConvertGoogleToOpenAI_nocheck(googleResponse, m) ==
  IF googleResponse.hasError
  THEN ErrorEnvelope(googleResponse.message, "invalid_request_error",
                     googleResponse.code)
  ELSE Completion(m, IF googleResponse.path = "text" THEN googleResponse.text
                     ELSE <<>>)

(***************************************************************************)
(* convertGoogleToOpenAI(googleResponse, model)                            *)
(***************************************************************************)
ConvertGoogleToOpenAI(googleResponse, m) ==
  IF googleResponse.hasError
  THEN ErrorEnvelope(googleResponse.message, "invalid_request_error",
                     googleResponse.code)
  ELSE IF googleResponse.path \in {"none", "candidate"}
       THEN ErrorEnvelope("No content generated", "invalid_response_error",
                          Undefined)
       ELSE Completion(m, IF googleResponse.path = "text" THEN googleResponse.text
                          ELSE <<>>)

\* The envelope of lines 74-80 for a response that is not ok.
UpstreamError(status, errorData) ==
  ErrorEnvelope(IF errorData.hasError /\ errorData.message # ""
                THEN errorData.message ELSE "Google API error",
                "google_api_error", Num(status))

(***************************************************************************)
(* convertOpenAIToGoogle(openAIRequest)                                    *)
(***************************************************************************)
\* What Array.prototype.join makes of one element.
ToText(v) == IF v.t = "string" /\ v.s # "" THEN <<v.s>> ELSE <<>>

RECURSIVE JoinContents(_)
JoinContents(items) ==
  IF items = <<>> THEN <<>>
  ELSE IF Len(items) = 1 THEN ToText(items[1].content)
  ELSE ToText(items[1].content) \o <<NL>> \o JoinContents(Tail(items))

DefaultTemperature == Num(7)

ConvertOpenAIToGoogle(openAIRequest) ==
  LET given == openAIRequest.messages
      temperature == IF Falsy(openAIRequest.temperature) THEN DefaultTemperature
                     ELSE openAIRequest.temperature
  IN IF given.t \in {"undefined", "null"}
     THEN [throws |-> FALSE, prompt |-> <<>>, temperature |-> temperature]
     ELSE IF given.t # "array" \/ \E i \in DOMAIN given.items : given.items[i].t = "null"
          THEN [throws |-> TRUE, prompt |-> <<>>, temperature |-> temperature]
          ELSE [throws |-> FALSE, prompt |-> JoinContents(given.items),
                temperature |-> temperature]

\* The strings that include 'gemini'.
IncludesGemini(name) == name \in {"gemini-pro", "gemini-1.5-flash"}

\* openAIRequest.model?.includes('gemini') ? openAIRequest.model : 'gemini-pro'
SelectModel(openAIRequest) ==
  LET given == openAIRequest.model IN
  IF given.t \in {"undefined", "null"}
  THEN [throws |-> FALSE, model |-> "gemini-pro"]
  ELSE IF given.t # "string"
       THEN [throws |-> TRUE, model |-> "gemini-pro"]
       ELSE [throws |-> FALSE,
             model |-> IF IncludesGemini(given.s) THEN given.s ELSE "gemini-pro"]

IsStreamRequest(openAIRequest) == openAIRequest.stream = True

(***************************************************************************)
(* The credential checks.                                                  *)
(***************************************************************************)
\* Mutant of StartsWithBearer: any header that is present passes.
StartsWithBearer_any(authHeader) == authHeader.present

\* authHeader?.startsWith('Bearer ')
StartsWithBearer(authHeader) ==
  /\ authHeader.present
  /\ Len(authHeader.value) >= 2
  /\ authHeader.value[1] = "Bearer"
  /\ authHeader.value[2] = SP

\* value.split(' ')
RECURSIVE SplitOnSpace(_, _, _)
SplitOnSpace(t, cur, acc) ==
  IF t = <<>> THEN Append(acc, cur)
  ELSE IF Head(t) = SP THEN SplitOnSpace(Tail(t), <<>>, Append(acc, cur))
  ELSE SplitOnSpace(Tail(t), Append(cur, Head(t)), acc)

\* authHeader.split(' ')[1]; the empty text stands for undefined as well.
ApiKeyOf(authHeader) ==
  LET pieces == SplitOnSpace(authHeader.value, <<>>, <<>>) IN
  IF Len(pieces) >= 2 THEN pieces[2] ELSE <<>>

(***************************************************************************)
(* The response object.                                                    *)
(***************************************************************************)
FreshResponse == [status |-> 200, body |-> NoBody, sends |-> 0]

\* res.status(status).json(body)
SendJson(r, status, body) ==
  [status |-> status, body |-> body, sends |-> r.sends + 1]

\* res.status(status).end() and res.end()
SendEnd(r, status) == [r EXCEPT !.status = status, !.sends = @ + 1]

\* Mutant of InternalError: the outer catch answers 200.
InternalError_ok(r) == SendJson(r, 200, ErrorString("Internal server error"))

\* The outer catch, lines 184-187.
InternalError(r) == SendJson(r, 500, ErrorString("Internal server error"))

StreamLog == "Stream processing error:"

ProxyLog == "Proxy error:"

\* Mutant of AfterStream: the `return` of line 125 is missing.
AfterStream_fallthrough == "json"

\* Where the handler is after the streaming branch: returned (line 125).
AfterStream == "returned"

NoCall ==
  [endpoint |-> "", model |-> "", key |-> <<>>, alt |-> "", prompt |-> <<>>,
   temperature |-> Undefined]

(***************************************************************************)
(* The handler from its entry to the first await or return: what it does   *)
(* with the request (lines 4-67).                                          *)
(***************************************************************************)
HandleRequest(r) ==
  LET answer(status, body) ==
        [kind |-> "answer", status |-> status, body |-> body,
         model |-> "gemini-pro", call |-> NoCall]
      throw ==
        [kind |-> "throw", status |-> 500, body |-> NoBody,
         model |-> "gemini-pro", call |-> NoCall]
  IN
  IF r.method = "OPTIONS" THEN answer(200, NoBody)
  ELSE IF r.method # "POST" THEN answer(405, ErrorString("Method not allowed"))
  ELSE IF ~StartsWithBearer(r.authorization)
       THEN answer(401, ErrorString("Unauthorized"))
  ELSE IF ApiKeyOf(r.authorization) = <<>>
       THEN answer(401, ErrorString("Invalid API key"))
  ELSE IF ~r.body.defined THEN throw
  ELSE LET m == SelectModel(r.body) IN
    IF m.throws THEN throw
    ELSE LET g == ConvertOpenAIToGoogle(r.body) IN
      IF g.throws THEN throw
      ELSE [kind |-> "fetch", status |-> 200, body |-> NoBody, model |-> m.model,
            call |-> [endpoint |-> IF IsStreamRequest(r.body)
                                   THEN "streamGenerateContent"
                                   ELSE "generateContent",
                      model |-> m.model,
                      key |-> ApiKeyOf(r.authorization),
                      alt |-> IF IsStreamRequest(r.body) THEN "sse" ELSE "",
                      prompt |-> g.prompt,
                      temperature |-> g.temperature]]

\* A streaming request for model m, as the streaming branch has it.
StreamRequest(m) ==
  [method |-> "POST", authorization |-> Header(<<"Bearer", SP, "key">>),
   body |-> [defined |-> TRUE, stream |-> True, model |-> Str(m),
             temperature |-> Undefined,
             messages |-> MessageList(<<Message(Str("a"))>>)]]

\* The response bodies of HandlerSpec: one line, closed by a newline or not.
ShortBodies == { Join(<<l>>, t) : l \in Catalogue, t \in BOOLEAN }

Init ==
  /\ upstream \in Bodies
  /\ model \in ModelNames
  /\ req = StreamRequest(model)
  /\ response = [ok |-> TRUE, status |-> 200,
                 doc |-> GoogleDoc(FALSE, "", Undefined, "none", <<>>)]
  /\ res = FreshResponse
  /\ fetches = <<HandleRequest(req).call>>
  /\ logs = <<>>
  /\ writable = TRUE
  /\ handlers = <<>>
  /\ pos = 0
  /\ decoder = <<>>
  /\ buffer = <<>>
  /\ written = <<>>
  /\ calls = <<>>
  /\ pc = "reading"
  /\ outcome = "pending"
  /\ ended = FALSE
  /\ clientConnected = TRUE

\* reader.read() resolves with {done: false, value}: n more bytes.
ReadChunk ==
  /\ pc = "reading"
  /\ \E n \in 1..(Len(upstream) - pos) :
       \E d \in {Decode(decoder, SubSeq(upstream, pos + 1, pos + n))} :
       \E r \in {SplitLines(AppendChunk(buffer, d.text), model, written, calls)} :
          /\ pos' = pos + n
          /\ decoder' = d.carry
          /\ buffer' = r.buffer
          /\ written' = r.written
          /\ calls' = r.calls
          /\ IF r.threw
             THEN /\ pc' = AfterStream
                  /\ outcome' = "threw"
                  /\ logs' = Append(logs, StreamLog)
                  /\ ended' = ResEnd(ended)
                  /\ res' = SendEnd(res, res.status)
             ELSE /\ pc' = "reading"
                  /\ UNCHANGED <<outcome, logs, ended, res>>
  /\ UNCHANGED <<upstream, model, clientConnected, requestVars, writable, handlers>>

\* reader.read() resolves with {done: true}.
ReadDone ==
  /\ pc = "reading"
  /\ pos = Len(upstream)
  /\ \E r \in {OnDone(buffer, model, written, calls)} :
       /\ written' = r.written
       /\ calls' = r.calls
       /\ outcome' = IF r.threw THEN "threw" ELSE "eof"
       /\ logs' = IF r.threw THEN Append(logs, StreamLog) ELSE logs
  /\ pc' = AfterStream
  /\ ended' = ResEnd(ended)
  /\ res' = SendEnd(res, res.status)
  /\ UNCHANGED <<upstream, pos, model, decoder, buffer, clientConnected,
                 requestVars, writable, handlers>>

\* Mutant of ReadFail: the failure is handled as end-of-input.
ReadFail_asDone ==
  /\ pc = "reading"
  /\ \E r \in {OnDone(buffer, model, written, calls)} :
       /\ written' = r.written
       /\ calls' = r.calls
  /\ pc' = AfterStream
  /\ outcome' = "read_failed"
  /\ logs' = Append(logs, StreamLog)
  /\ ended' = ResEnd(ended)
  /\ res' = SendEnd(res, res.status)
  /\ UNCHANGED <<upstream, pos, model, decoder, buffer, clientConnected,
                 requestVars, writable, handlers>>

\* reader.read() rejects: catch logs, finally ends the response.
ReadFail ==
  /\ pc = "reading"
  /\ pc' = AfterStream
  /\ outcome' = "read_failed"
  /\ logs' = Append(logs, StreamLog)
  /\ ended' = ResEnd(ended)
  /\ res' = SendEnd(res, res.status)
  /\ UNCHANGED <<upstream, pos, model, decoder, buffer, written, calls,
                 clientConnected, requestVars, writable, handlers>>

\* The inbound client goes away while the handler is suspended.
ClientDisconnect ==
  /\ pc = "reading"
  /\ clientConnected
  /\ clientConnected' = FALSE
  /\ UNCHANGED <<upstream, pos, model, decoder, buffer, written, calls, pc,
                 outcome, ended, requestVars, res, logs, writable, handlers>>

Next == ReadChunk \/ ReadDone \/ ReadFail \/ ClientDisconnect

Spec == Init /\ [][Next]_vars

(***************************************************************************)
(* One whole request.                                                      *)
(***************************************************************************)
HandlerInit ==
  /\ req \in Requests
  /\ pc = "start"
  /\ upstream = <<>>
  /\ model = "gemini-pro"
  /\ pos = 0
  /\ decoder = <<>>
  /\ buffer = <<>>
  /\ written = <<>>
  /\ calls = <<>>
  /\ outcome = "pending"
  /\ ended = FALSE
  /\ clientConnected = TRUE
  /\ response = NoResponse
  /\ res = FreshResponse
  /\ fetches = <<>>
  /\ logs = <<>>
  /\ writable = TRUE
  /\ handlers = <<>>

\* The handler runs from its entry to its first return or to `await fetch`.
Enter ==
  /\ pc = "start"
  /\ \E h \in {HandleRequest(req)} :
       \/ /\ h.kind = "answer"
          /\ res' = IF h.body.kind = "none" THEN SendEnd(res, h.status)
                    ELSE SendJson(res, h.status, h.body)
          /\ pc' = "returned"
          /\ outcome' = "rejected"
          /\ UNCHANGED <<model, fetches, logs>>
       \/ /\ h.kind = "throw"
          /\ res' = InternalError(res)
          /\ logs' = Append(logs, ProxyLog)
          /\ pc' = "returned"
          /\ outcome' = "failed"
          /\ UNCHANGED <<model, fetches>>
       \/ /\ h.kind = "fetch"
          /\ fetches' = Append(fetches, h.call)
          /\ model' = h.model
          /\ pc' = "fetching"
          /\ UNCHANGED <<res, logs, outcome>>
  /\ UNCHANGED <<streamVars, clientConnected, req, response, writable, handlers>>

\* fetch rejects: the outer catch answers 500.
FetchRejects ==
  /\ pc = "fetching"
  /\ res' = InternalError(res)
  /\ logs' = Append(logs, ProxyLog)
  /\ pc' = "returned"
  /\ outcome' = "failed"
  /\ UNCHANGED <<streamVars, model, clientConnected, requestVars, writable, handlers>>

\* fetch resolves with a response that is not ok: await response.json(), line 70.
FetchNotOk ==
  /\ pc = "fetching"
  /\ response' \in ErrorResponses
  /\ pc' = "error_json"
  /\ UNCHANGED <<streamVars, model, clientConnected, req, fetches, res, logs,
                 outcome, writable, handlers>>

\* The error document arrives: the backend's status and a wrapped envelope.
ErrorJsonResolves ==
  /\ pc = "error_json"
  /\ res' = SendJson(res, response.status,
                     UpstreamError(response.status, response.doc))
  /\ pc' = "returned"
  /\ outcome' = "upstream_error"
  /\ UNCHANGED <<streamVars, model, clientConnected, requestVars, logs, writable, handlers>>

\* The error body is not JSON: response.json() rejects.
ErrorJsonRejects ==
  /\ pc = "error_json"
  /\ res' = InternalError(res)
  /\ logs' = Append(logs, ProxyLog)
  /\ pc' = "returned"
  /\ outcome' = "failed"
  /\ UNCHANGED <<streamVars, model, clientConnected, requestVars, writable, handlers>>

\* fetch resolves ok for a request that does not stream: await response.json().
FetchOkJson ==
  /\ pc = "fetching"
  /\ ~IsStreamRequest(req.body)
  /\ response' \in OkResponses
  /\ pc' = "json"
  /\ UNCHANGED <<streamVars, model, clientConnected, req, fetches, res, logs,
                 outcome, writable, handlers>>

\* The document arrives: it is converted and sent with the backend's status.
JsonResolves ==
  /\ pc = "json"
  /\ res' = SendJson(res, response.status,
                     ConvertGoogleToOpenAI(response.doc, model))
  /\ pc' = "returned"
  /\ outcome' = "answered"
  /\ UNCHANGED <<streamVars, model, clientConnected, requestVars, logs, writable, handlers>>

\* response.json() rejects.
JsonRejects ==
  /\ pc = "json"
  /\ res' = InternalError(res)
  /\ logs' = Append(logs, ProxyLog)
  /\ pc' = "returned"
  /\ outcome' = "failed"
  /\ UNCHANGED <<streamVars, model, clientConnected, requestVars, writable, handlers>>

\* fetch resolves ok for a streaming request: the reader is obtained and the
\* first read is awaited.
FetchOkStream ==
  /\ pc = "fetching"
  /\ IsStreamRequest(req.body)
  /\ upstream' \in ShortBodies
  /\ response' = [ok |-> TRUE, status |-> 200, doc |-> NoResponse.doc]
  /\ pc' = "reading"
  /\ UNCHANGED <<pos, decoder, buffer, written, calls, ended, model,
                 clientConnected, req, fetches, res, logs, outcome, writable, handlers>>

\* ... but response.body.getReader() throws: the inner catch and finally.
GetReaderFails ==
  /\ pc = "fetching"
  /\ IsStreamRequest(req.body)
  /\ response' = [ok |-> TRUE, status |-> 200, doc |-> NoResponse.doc]
  /\ pc' = AfterStream
  /\ outcome' = "no_reader"
  /\ logs' = Append(logs, StreamLog)
  /\ ended' = ResEnd(ended)
  /\ res' = SendEnd(res, res.status)
  /\ UNCHANGED <<upstream, pos, decoder, buffer, written, calls, model,
                 clientConnected, req, fetches, writable, handlers>>

\* From now on res.write throws.
WriteBreaks ==
  /\ pc = "reading"
  /\ writable
  /\ writable' = FALSE
  /\ UNCHANGED <<streamVars, model, pc, outcome, clientConnected, requestVars,
                 res, logs, handlers>>

HandlerNext ==
  \/ Enter
  \/ FetchRejects
  \/ FetchNotOk
  \/ ErrorJsonResolves
  \/ ErrorJsonRejects
  \/ FetchOkJson
  \/ JsonResolves
  \/ JsonRejects
  \/ FetchOkStream
  \/ GetReaderFails
  \/ ReadChunk
  \/ ReadDone
  \/ ReadFail
  \/ ClientDisconnect
  \/ WriteBreaks

HandlerSpec == HandlerInit /\ [][HandlerNext]_vars

(***************************************************************************)
(* Two concurrent invocations of the handler for streaming requests.  The  *)
(* decoder, the buffer and processLine are declared inside the handler     *)
(* (lines 89-91, 128): each invocation has its own, which it finds again   *)
(* when its `await reader.read()` resumes.  The module has no other        *)
(* mutable state.                                                          *)
(***************************************************************************)
Handlers == {1, 2}

PairBodies ==
  {Join(<<LineHi, LineEAcute>>, FALSE),
   Join(<<LineEAcute, LineDone>>, TRUE),
   Join(<<LineBad, LineHi>>, TRUE)}

\* An invocation that has reached its first `await reader.read()`.
StartHandler(body) ==
  [upstream |-> body, pos |-> 0, decoder |-> <<>>, buffer |-> <<>>,
   written |-> <<>>, calls |-> <<>>, pc |-> "reading", outcome |-> "pending",
   ended |-> FALSE]

\* Lines 107-118 on the locals of one invocation: a chunk of n bytes.
OnChunk(h, n, m) ==
  LET d == Decode(h.decoder, SubSeq(h.upstream, h.pos + 1, h.pos + n))
      r == SplitLines(AppendChunk(h.buffer, d.text), m, h.written, h.calls)
  IN [h EXCEPT !.pos = @ + n, !.decoder = d.carry, !.buffer = r.buffer,
               !.written = r.written, !.calls = r.calls,
               !.pc = IF r.threw THEN AfterStream ELSE "reading",
               !.outcome = IF r.threw THEN "threw" ELSE @,
               !.ended = IF r.threw THEN ResEnd(@) ELSE @]

\* Lines 99-105 and 123-125 on the locals of one invocation.
OnEnd(h, m) ==
  LET r == OnDone(h.buffer, m, h.written, h.calls)
  IN [h EXCEPT !.written = r.written, !.calls = r.calls, !.pc = AfterStream,
               !.outcome = IF r.threw THEN "threw" ELSE "eof",
               !.ended = ResEnd(@)]

\* Lines 120-125 on the locals of one invocation.
OnFail(h) ==
  [h EXCEPT !.pc = AfterStream, !.outcome = "read_failed", !.ended = ResEnd(@)]

\* Mutant of Suspend: decoder and buffer are module-level variables.
Suspend_shared(hs, i, h) ==
  [j \in DOMAIN hs |->
     IF j = i THEN h
     ELSE [hs[j] EXCEPT !.decoder = h.decoder, !.buffer = h.buffer]]

\* Invocation i suspends at its next await: its locals are its own.
Suspend(hs, i, h) == [hs EXCEPT ![i] = h]

PairInit ==
  /\ handlers \in [Handlers -> {StartHandler(b) : b \in PairBodies}]
  /\ pc = "concurrent"
  /\ model = "gemini-pro"
  /\ upstream = <<>>
  /\ pos = 0
  /\ decoder = <<>>
  /\ buffer = <<>>
  /\ written = <<>>
  /\ calls = <<>>
  /\ outcome = "pending"
  /\ ended = FALSE
  /\ clientConnected = TRUE
  /\ req = StreamRequest(model)
  /\ response = [ok |-> TRUE, status |-> 200, doc |-> NoResponse.doc]
  /\ res = FreshResponse
  /\ fetches = <<>>
  /\ logs = <<>>
  /\ writable = TRUE

\* The read of one invocation resolves with n more bytes.
PairReadChunk ==
  /\ pc = "concurrent"
  /\ \E i \in Handlers :
       /\ handlers[i].pc = "reading"
       /\ \E n \in 1..(Len(handlers[i].upstream) - handlers[i].pos) :
            handlers' = Suspend(handlers, i, OnChunk(handlers[i], n, model))
  /\ UNCHANGED handlerVars

\* The read of one invocation resolves with done.
PairReadDone ==
  /\ pc = "concurrent"
  /\ \E i \in Handlers :
       /\ handlers[i].pc = "reading"
       /\ handlers[i].pos = Len(handlers[i].upstream)
       /\ handlers' = Suspend(handlers, i, OnEnd(handlers[i], model))
  /\ UNCHANGED handlerVars

\* The read of one invocation rejects.
PairReadFail ==
  /\ pc = "concurrent"
  /\ \E i \in Handlers :
       /\ handlers[i].pc = "reading"
       /\ handlers' = Suspend(handlers, i, OnFail(handlers[i]))
  /\ UNCHANGED handlerVars

PairNext == PairReadChunk \/ PairReadDone \/ PairReadFail

PairSpec == PairInit /\ [][PairNext]_vars

(***************************************************************************)
(* Reading the written events back, as the client does.                    *)
(***************************************************************************)
IsChunkEvent(e) == Len(e) >= 2 /\ e[2] = ChunkHead

DoneCount(w) == Cardinality({i \in DOMAIN w : w[i] = DoneEvent})

CallLines == [i \in DOMAIN calls |-> calls[i].line]

\* The text of the bytes delivered so far, decoded in one piece.
Received == Decode(<<>>, SubSeq(upstream, 1, pos)).text

\* The lines of a text: those closed by a newline, and what follows the last.
RECURSIVE SplitText(_, _, _)
SplitText(t, cur, acc) ==
  IF t = <<>> THEN [lines |-> acc, rest |-> cur]
  ELSE IF Head(t) = NL THEN SplitText(Tail(t), <<>>, Append(acc, cur))
  ELSE SplitText(Tail(t), Append(cur, Head(t)), acc)

IsBlank(l) == \A i \in DOMAIN l : l[i] \in WhiteSpace

NonBlank(ls) == SelectSeq(ls, LAMBDA l : ~IsBlank(l))

\* The lines due for processing: the closed ones, and at end-of-input the rest.
DueLines ==
  LET s == SplitText(Received, <<>>, <<>>) IN
  IF outcome = "eof" THEN Append(s.lines, s.rest) ELSE s.lines

ChunkEvents(w) == SelectSeq(w, IsChunkEvent)

\* The delta content of a content event.
DeltaOf(e) == SubSeq(e, 5, Len(e) - 2)

Deltas(w) == LET ce == ChunkEvents(w) IN [k \in DOMAIN ce |-> DeltaOf(ce[k])]

\* The line is `data: ` and a JSON document with a text in the first part.
HasText(l) == StartsWithPrefix(l) /\ JSONParse(Tail(l)).hasText

\* ... and that text is not empty.
BearsContent(l) == HasText(l) /\ JSONParse(Tail(l)).text # <<>>

\* The line is `data: ` and something that is neither [DONE] nor valid JSON.
Malformed(l) ==
  StartsWithPrefix(l) /\ Tail(l) # <<DoneToken>> /\ JSONParse(Tail(l)).throws

IsDoneLine(l) == l = <<Prefix, DoneToken>>

ContentTexts(ls) ==
  LET cl == SelectSeq(ls, BearsContent) IN
  [k \in DOMAIN cl |-> JSONParse(Tail(cl[k])).text]

IsPrefixOf(a, b) == Len(a) <= Len(b) /\ a = SubSeq(b, 1, Len(a))

\* What one processLine call wrote, against what its line bears.
EventsMatch(l, w, bears) ==
  IF bears
  THEN Len(w) = 1 /\ IsChunkEvent(w[1]) /\ DeltaOf(w[1]) = JSONParse(Tail(l)).text
  ELSE \A k \in DOMAIN w : ~IsChunkEvent(w[k])

\* The handler's state after the bytes of body arrive as a single chunk.
OneChunk(body, m) ==
  SplitLines(AppendChunk(<<>>, Decode(<<>>, body).text), m, <<>>, <<>>)

(***************************************************************************)
(* C1: in a stream that reaches end-of-input, `data: [DONE]` is written to *)
(* the client exactly once, however many [DONE] lines the backend sent.    *)
(* The code writes one per backend [DONE] line and one more at the end.    *)
(***************************************************************************)
C1_DoneExactlyOnce == outcome = "eof" => DoneCount(written) = 1

(***************************************************************************)
(* C2: whatever the chunk boundaries, the lines handed to processLine and  *)
(* the events written are those of the same bytes arriving as one chunk.   *)
(***************************************************************************)
C2_ChunkingInvariant ==
  /\ pc = "reading" =>
       LET r == OneChunk(SubSeq(upstream, 1, pos), model) IN
         /\ calls = r.calls
         /\ written = r.written
         /\ buffer = r.buffer
  /\ outcome = "eof" =>
       LET r == OneChunk(upstream, model)
           f == OnDone(r.buffer, model, r.written, r.calls)
       IN calls = f.calls /\ written = f.written

\* A chunk boundary fell inside a multi-byte character, after a line was handed on.
C2_Witness == pc = "reading" /\ decoder # <<>> /\ calls # <<>> /\ written # <<>>

(***************************************************************************)
(* C3: the non-blank lines handed to processLine are, in order and each    *)
(* once, the non-blank lines of the text received so far that are closed   *)
(* by a newline, with the unterminated last line added at end-of-input.    *)
(***************************************************************************)
C3_EachLineOnce ==
  outcome \in {"pending", "eof"} => NonBlank(CallLines) = NonBlank(DueLines)

\* End-of-input after two lines were handed on, a blank line was discarded
\* and an unterminated last line was processed.
C3_Witness ==
  /\ outcome = "eof"
  /\ Len(calls) >= 2
  /\ ~IsBlank(buffer)
  /\ Len(SplitText(Received, <<>>, <<>>).lines) >= Len(calls)

(***************************************************************************)
(* C4 as stated: a line handed to processLine whose JSON payload has a     *)
(* text in the first part of the first candidate's content writes exactly  *)
(* one content event, with that text as its delta; any other line writes   *)
(* no content event.  An empty text is a text and writes nothing.          *)
(***************************************************************************)
C4_OneEventPerText ==
  \A i \in DOMAIN calls :
    EventsMatch(calls[i].line, calls[i].wrote, HasText(calls[i].line))

(***************************************************************************)
(* C4 as amended: a line whose payload has a non-empty text writes exactly *)
(* one content event, with that text verbatim as its delta; a line with no *)
(* text, or with an empty one, writes no content event; and the content    *)
(* events written are as many as the lines that bear content.              *)
(***************************************************************************)
C4_OneEventPerNonEmptyText ==
  /\ \A i \in DOMAIN calls :
       EventsMatch(calls[i].line, calls[i].wrote, BearsContent(calls[i].line))
  /\ Len(ChunkEvents(written)) =
       Cardinality({i \in DOMAIN calls : BearsContent(calls[i].line)})

\* A content line, a line with an empty text and a line without prefix were processed.
C4_Witness ==
  /\ \E i \in DOMAIN calls : BearsContent(calls[i].line) /\ calls[i].wrote # <<>>
  /\ \E i \in DOMAIN calls :
       HasText(calls[i].line) /\ ~BearsContent(calls[i].line)
  /\ \E i \in DOMAIN calls : ~StartsWithPrefix(calls[i].line)

(***************************************************************************)
(* C5: a `data: ` line that is not valid JSON writes nothing and no        *)
(* exception leaves processLine: the read loop goes on, the content lines  *)
(* before and after it each yield their event, and at end-of-input the     *)
(* response is terminated and ended as usual.                              *)
(***************************************************************************)
C5_MalformedSkipped ==
  (\E i \in DOMAIN calls : Malformed(calls[i].line)) =>
    /\ outcome # "threw"
    /\ \A i \in DOMAIN calls : Malformed(calls[i].line) => calls[i].wrote = <<>>
    /\ Deltas(written) = ContentTexts(DueLines)
    /\ outcome = "eof" => (written[Len(written)] = DoneEvent /\ ended)

\* A malformed line between two content lines: two content events, then the end.
C5_Witness ==
  /\ outcome = "eof"
  /\ Len(calls) = 3
  /\ BearsContent(calls[1].line)
  /\ Malformed(calls[2].line)
  /\ BearsContent(calls[3].line)
  /\ Len(ChunkEvents(written)) = 2

(***************************************************************************)
(* C6: every write is one event framed as `data: ` ... blank line, and the *)
(* content events written carry, in order and once each, the texts of the  *)
(* content lines of the backend's text.                                    *)
(***************************************************************************)
C6_FifoOrder ==
  /\ \A k \in DOMAIN written :
       /\ Len(written[k]) >= 3
       /\ written[k][1] = Prefix
       /\ written[k][Len(written[k])] = EventEnd
       /\ \A j \in 2..(Len(written[k]) - 1) : written[k][j] \notin {Prefix, EventEnd}
  /\ Deltas(written) = ContentTexts(DueLines)

\* Two content events with different texts have been written.
C6_Witness ==
  /\ Len(ChunkEvents(written)) >= 2
  /\ Deltas(written)[1] # Deltas(written)[2]

(***************************************************************************)
(* C7: no content event is written to the client after a termination       *)
(* event.  The code keeps translating the lines that follow a [DONE] line. *)
(***************************************************************************)
C7_NoContentAfterDone ==
  \A i, j \in DOMAIN written :
    (i < j /\ written[i] = DoneEvent) => ~IsChunkEvent(written[j])

(***************************************************************************)
(* C8: when no line of the backend's text is `data: [DONE]` and the stream *)
(* reaches end-of-input, the writes are the content events followed by one *)
(* termination event, which is the last write, and the response is ended.  *)
(***************************************************************************)
C8_TerminatorSupplied ==
  (outcome = "eof" /\ \A i \in DOMAIN DueLines : ~IsDoneLine(DueLines[i])) =>
    /\ written # <<>>
    /\ written[Len(written)] = DoneEvent
    /\ DoneCount(written) = 1
    /\ \A k \in 1..(Len(written) - 1) : IsChunkEvent(written[k])
    /\ Len(written) = Len(ContentTexts(DueLines)) + 1
    /\ ended

\* End-of-input with an unterminated content line and no backend [DONE].
C8_Witness ==
  /\ outcome = "eof"
  /\ \A i \in DOMAIN DueLines : ~IsDoneLine(DueLines[i])
  /\ BearsContent(buffer)
  /\ Len(written) >= 3

(***************************************************************************)
(* C9: once the inbound client has disconnected, the handler issues no     *)
(* further upstream read.  The code never observes the disconnect.         *)
(***************************************************************************)
C9_NoReadAfterDisconnect ==
  [][~clientConnected => ~(pc' = "reading" /\ pos' # pos)]_vars

(***************************************************************************)
(* C10: the step in which a read fails writes nothing and retracts nothing,*)
(* ends the response and leaves the handler returned, with no read pending *)
(* and no further byte consumed; and no step ever shortens the writes.     *)
(***************************************************************************)
C10_ReadFailureEnds ==
  [][/\ IsPrefixOf(written, written')
     /\ outcome' = "read_failed" =>
          (written' = written /\ ended' /\ pc' = "returned" /\ pos' = pos)]_vars

\* A read failed after an event was written, with an incomplete line buffered.
C10_Witness ==
  /\ outcome = "read_failed"
  /\ ended
  /\ written # <<>>
  /\ buffer # <<>>
  /\ pos < Len(upstream)

(***************************************************************************)
(* C15: when a chunk ends between the two bytes of a character, the next   *)
(* chunk completes it: after that chunk the lines handed on, the buffer    *)
(* and the decoder are those of the whole byte sequence decoded at once.   *)
(***************************************************************************)
C15_SplitCharacterDecoded ==
  [][(pos > 0 /\ upstream[pos] = LeadByte /\ pos' # pos) =>
       LET whole == DecodeFrom(<<>>, SubSeq(upstream, 1, pos'), <<>>)
           s     == SplitText(whole.text, <<>>, <<>>)
       IN /\ buffer' = s.rest
          /\ decoder' = whole.carry
          /\ NonBlank(CallLines') = NonBlank(s.lines)]_vars

\* A chunk ended after the first byte of a character inside a content line.
C15_Witness ==
  /\ pc = "reading"
  /\ pos > 0
  /\ upstream[pos] = LeadByte
  /\ decoder = <<LeadByte>>
  /\ buffer # <<>>
  /\ buffer[Len(buffer)] = DocOpen

(***************************************************************************)
(* C18: at end-of-input a non-empty remainder is handed to processLine as  *)
(* the last line, once, after every closed line, and what it writes comes  *)
(* right before the final termination event.                               *)
(***************************************************************************)
C18_RemainderProcessedOnce ==
  (outcome = "eof" /\ buffer # <<>>) =>
    LET n == Len(calls) IN
      /\ n = Len(NonBlank(SplitText(Received, <<>>, <<>>).lines)) + 1
      /\ calls[n].line = buffer
      /\ written # <<>>
      /\ written[Len(written)] = DoneEvent
      /\ calls[n].wrote # <<>> =>
           /\ Len(written) >= 2
           /\ written[Len(written) - 1] = calls[n].wrote[1]

\* End-of-input with the character line unterminated, after another line.
C18_Witness ==
  /\ outcome = "eof"
  /\ Len(calls) = 2
  /\ buffer = <<Prefix, DocOpen, EAcute, DocClose>>
  /\ Len(written) >= 2

(***************************************************************************)
(* C20: after a failed read only the lines closed by a newline have been   *)
(* handed to processLine, the buffered remainder has not, and the writes   *)
(* are those of processLine alone: the proxy has added no terminator.      *)
(***************************************************************************)
C20_FailureSkipsEndOfInput ==
  outcome = "read_failed" =>
    /\ NonBlank(CallLines) = NonBlank(SplitText(Received, <<>>, <<>>).lines)
    /\ Len(calls) = Len(NonBlank(SplitText(Received, <<>>, <<>>).lines))
    /\ Len(written) = Cardinality({i \in DOMAIN calls : calls[i].wrote # <<>>})
    /\ DoneCount(written) =
         Cardinality({i \in DOMAIN calls : IsDoneLine(calls[i].line)})

\* A read failed while a whole content line sat unterminated in the buffer.
C20_Witness ==
  /\ outcome = "read_failed"
  /\ BearsContent(buffer)
  /\ pos = Len(upstream)

(***************************************************************************)
(* Operators of the claims about whole requests.                           *)
(***************************************************************************)
GenericError == ErrorString("Internal server error")

\* `Authorization: Bearer <credential>` with a credential that is not empty.
HasBearerCredential(h) ==
  /\ h.present
  /\ Len(h.value) >= 3
  /\ h.value[1] = "Bearer"
  /\ h.value[2] = SP

\* The ways the streaming branch ends.
StreamOutcomes == {"eof", "threw", "read_failed", "no_reader"}

\* An inbound temperature is absent when the field is missing or null.
TemperatureAbsent(b) == b.temperature.t \in {"undefined", "null"}

\* The document reaches a content object of the first candidate.
HasFirstContent(doc) == doc.path \in {"content", "part", "text"}

\* The text of the first part, empty when the path stops short of one.
FirstPartText(doc) == IF doc.path = "text" THEN doc.text ELSE <<>>

(***************************************************************************)
(* C11 as stated: whenever an exception was caught and logged, in the      *)
(* streaming branch as elsewhere, the client got status 500 with the       *)
(* generic error body.  The streaming branch's own catch answers nothing.  *)
(***************************************************************************)
C11_AnyExceptionIs500 ==
  (pc = "returned" /\ logs # <<>>) =>
    /\ res.status = 500
    /\ res.body = GenericError

(***************************************************************************)
(* C11 as amended: every exception is caught and logged once.  Outside the *)
(* streaming branch the outer catch answers 500 with the generic body;     *)
(* inside it the inner catch logs, the response is ended with the status   *)
(* and the events it already had, and no 500 is sent.                      *)
(***************************************************************************)
C11_ExceptionsCaught ==
  /\ outcome \in {"failed", "threw", "read_failed", "no_reader"} =>
       /\ pc = "returned"
       /\ Len(logs) = 1
  /\ outcome = "failed" =>
       /\ logs = <<ProxyLog>>
       /\ res = [status |-> 500, body |-> GenericError, sends |-> 1]
       /\ written = <<>>
  /\ outcome \in {"threw", "read_failed", "no_reader"} =>
       /\ logs = <<StreamLog>>
       /\ ended
       /\ res = [status |-> 200, body |-> NoBody, sends |-> 1]
  /\ outcome \in {"pending", "rejected", "upstream_error", "answered", "eof"} =>
       logs = <<>>

\* A read failed after an event had been written to the client.
C11_Witness ==
  /\ pc = "returned"
  /\ outcome = "read_failed"
  /\ written # <<>>
  /\ logs = <<StreamLog>>

C13_ThreeResults ==
  outcome = "answered" =>
    LET doc == response.doc
        out == res.body
    IN /\ doc.hasError =>
            /\ out.kind = "error_envelope"
            /\ out.message = doc.message
            /\ out.code = doc.code
            /\ out.type = "invalid_request_error"
            /\ out.finish_reason = "" /\ out.content = <<>> /\ out.usage = <<>>
       /\ (~doc.hasError /\ ~HasFirstContent(doc)) =>
            /\ out.kind = "error_envelope"
            /\ out.type # "invalid_request_error"
            /\ out.finish_reason = "" /\ out.content = <<>> /\ out.usage = <<>>
       /\ (~doc.hasError /\ HasFirstContent(doc)) =>
            /\ out.kind = "completion"
            /\ out.finish_reason = "stop"
            /\ out.content = FirstPartText(doc)
            /\ out.usage = <<-1, -1, -1>>
            /\ out.model = model

\* A document with a candidate that has no content was answered.
C13_Witness ==
  /\ outcome = "answered"
  /\ response.doc.path = "candidate"
  /\ res.body.type = "invalid_response_error"

(***************************************************************************)
(* C14: the temperature of the backend call is the inbound temperature     *)
(* whenever the request has one, 0 included, and the default only when it  *)
(* has none.  An inbound 0 is replaced by the default.                     *)
(***************************************************************************)
C14_TemperaturePassesThrough ==
  fetches # <<>> =>
    fetches[1].temperature =
      IF TemperatureAbsent(req.body) THEN DefaultTemperature
      ELSE req.body.temperature

(***************************************************************************)
(* C17: for every request body, whatever `messages`, its entries, `model`  *)
(* and `temperature` are, the translation raises no error: a request that  *)
(* passed the method and credential checks with a body calls the backend.  *)
(* A null entry, a `messages` that is no array and a `model` that is no    *)
(* string raise a TypeError.                                               *)
(***************************************************************************)
C17_TranslationCannotFail ==
  (/\ pc # "start"
   /\ req.method = "POST"
   /\ StartsWithBearer(req.authorization)
   /\ ApiKeyOf(req.authorization) # <<>>
   /\ req.body.defined) => fetches # <<>>

(***************************************************************************)
(* C19: every way through the streaming branch ends the response once and  *)
(* returns: no JSON body and no 500 is sent, and once the response is      *)
(* ended nothing more is written and nothing more is sent.                 *)
(***************************************************************************)
C19_EndedExactlyOnce ==
  [][/\ outcome' \in StreamOutcomes =>
          /\ pc' = "returned"
          /\ ended'
          /\ res' = [status |-> 200, body |-> NoBody, sends |-> 1]
     /\ ended => (written' = written /\ res' = res /\ ended')]_vars

\* res.write threw at the final terminator and the response was ended.
C19_Witness ==
  /\ pc = "returned"
  /\ outcome = "threw"
  /\ ~writable
  /\ ended
  /\ res.sends = 1

(***************************************************************************)
(* C16: with two invocations interleaved at their reads in any order, each *)
(* has at every moment the decoder, the buffer, the processLine calls and  *)
(* the written events that its own bytes give when it runs alone.          *)
(***************************************************************************)
C16_Isolated ==
  \A i \in DOMAIN handlers :
    LET h     == handlers[i]
        alone == OneChunk(SubSeq(h.upstream, 1, h.pos), model)
        end   == OnDone(alone.buffer, model, alone.written, alone.calls)
    IN /\ h.decoder = Decode(<<>>, SubSeq(h.upstream, 1, h.pos)).carry
       /\ h.buffer = alone.buffer
       /\ h.outcome \in {"pending", "read_failed"} =>
            h.written = alone.written /\ h.calls = alone.calls
       /\ h.outcome = "eof" =>
            h.written = end.written /\ h.calls = end.calls
       /\ h.outcome # "threw"

\* Both invocations are suspended in mid-stream with different remainders,
\* one of them inside a character.
C16_Witness ==
  /\ pc = "concurrent"
  /\ handlers[1].pc = "reading" /\ handlers[2].pc = "reading"
  /\ handlers[1].buffer # <<>> /\ handlers[2].buffer # <<>>
  /\ handlers[1].buffer # handlers[2].buffer
  /\ handlers[1].decoder # <<>> /\ handlers[2].decoder = <<>>
  /\ handlers[1].written # <<>> /\ handlers[2].written # <<>>

TypeOK ==
  /\ pos \in 0..Len(upstream)
  /\ pc \in {"start", "fetching", "error_json", "json", "reading", "returned",
            "concurrent"}
  /\ outcome \in {"pending", "eof", "read_failed", "threw", "no_reader",
                  "rejected", "failed", "upstream_error", "answered"}
  /\ res.sends \in 0..1
  /\ Len(fetches) <= 1
  /\ ended \in BOOLEAN
  /\ clientConnected \in BOOLEAN
====
